---- MODULE Spec2Model ----
(***************************************************************************)
(* uuid-freebsd.c: UUID generation functions (nil, the four namespace      *)
(* UUIDs, v1, v1mc, v3, v4, v5).  Every SQL-callable function funnels      *)
(* through internal_uuid_create, which builds a C string in strbuf[] and   *)
(* hands it to uuid_in.                                                    *)
(*                                                                         *)
(* C strings are modelled as sequences of one-character strings, bytes as  *)
(* integers 0..255, 32-bit words as records [hi, lo] of two 16-bit halves. *)
(* The collaborators the file calls but does not define (arc4random,       *)
(* uuid_create, uuid_to_string, libmd's MD5 and SHA-1, uuid_in, ereport)   *)
(* are modelled by their interface: what goes in, what comes back, and a   *)
(* log of the calls made.  Definitions marked "faulty variant" are not     *)
(* part of the model: each is the definition that follows it with one      *)
(* plausible slip, used to show that a property depends on that code.      *)
(***************************************************************************)
EXTENDS Integers, Sequences, FiniteSets, TLC

(***************************************************************************)
(* State.  The file keeps no state of its own between calls; what persists *)
(* is the provider's clock.  The other variables record the last call: its *)
(* arguments, what it obtained from its collaborators, the calls it made,  *)
(* and how it ended.                                                       *)
(***************************************************************************)
VARIABLES
    op,         \* the SQL function last called ("none" before the first call)
    ns,         \* its namespace argument (16 bytes), <<>> when it takes none
    name,       \* its name argument (bytes), <<>> when it takes none
    rnd,        \* <<random source>> the call drew from, <<>> when it drew nothing
    prov,       \* <<what the provider did in the call>>, <<>> when it was not called
    digest,     \* the digest MD5Final / SHA1_Final returned, <<>> when none
    log,        \* the collaborator calls the call made, in order
    strbuf,     \* the string handed to uuid_in, <<>> when none was
    outcome,    \* "none", "ok" (a UUID was returned) or "error" (ereport(ERROR))
    errstatus,  \* the provider status an error carries
    ret,        \* the 16 bytes returned, <<>> when the call ended in an error
    clock,      \* the provider's clock: the number of uuid_create calls so far
    seen        \* history: <<an earlier v3/v5 call>> (its function, arguments and
                \* result, and the provider's clock at the time), or <<>>

vars == <<op, ns, name, rnd, prov, digest, log, strbuf, outcome, errstatus, ret, clock, seen>>

(***************************************************************************)
(* Bounds of the model.                                                    *)
(***************************************************************************)
\* longest name (in bytes) passed to uuid_generate_v3 / uuid_generate_v5
MaxNameLen == 2
\* number of uuid_create calls after which the v1 generators are no longer exercised
MaxClock == 2

(***************************************************************************)
(* Integer helpers: C's & and | on unsigned values.                        *)
(***************************************************************************)
RECURSIVE BitAnd(_, _)
BitAnd(a, b) ==
    IF a = 0 \/ b = 0 THEN 0
    ELSE (IF a % 2 = 1 /\ b % 2 = 1 THEN 1 ELSE 0) + 2 * BitAnd(a \div 2, b \div 2)

RECURSIVE BitOr(_, _)
BitOr(a, b) ==
    IF a = 0 THEN b
    ELSE IF b = 0 THEN a
    ELSE (IF a % 2 = 1 \/ b % 2 = 1 THEN 1 ELSE 0) + 2 * BitOr(a \div 2, b \div 2)

(***************************************************************************)
(* printf's %x conversions.  A field width is a MINIMUM: a value that      *)
(* needs more digits than the width is printed in full.                    *)
(***************************************************************************)
LowerHex == <<"0","1","2","3","4","5","6","7","8","9","a","b","c","d","e","f">>
UpperHex == <<"0","1","2","3","4","5","6","7","8","9","A","B","C","D","E","F">>

RECURSIVE HexDigits(_, _)
HexDigits(n, alphabet) ==
    IF n < 16 THEN <<alphabet[n + 1]>>
    ELSE HexDigits(n \div 16, alphabet) \o <<alphabet[(n % 16) + 1]>>

RECURSIVE ZeroPad(_, _)
ZeroPad(s, width) == IF Len(s) >= width THEN s ELSE ZeroPad(<<"0">> \o s, width)

\* faulty variant of Fmtx: %X instead of %x
FmtUpperX(n, width) == ZeroPad(HexDigits(n, UpperHex), width)
\* %0<width>x of an unsigned value below 2^16
Fmtx(n, width) == ZeroPad(HexDigits(n, LowerHex), width)

\* a 32-bit word (uint32_t), and w & mask for a mask below 2^16
Word(h, l) == [hi |-> h, lo |-> l]
And16(w, mask) == BitAnd(w.lo, mask)

\* %0<width>lx of a 32-bit word widened to unsigned long
Fmtlx(w, width) ==
    ZeroPad(IF w.hi = 0 THEN HexDigits(w.lo, LowerHex)
            ELSE HexDigits(w.hi, LowerHex) \o ZeroPad(HexDigits(w.lo, LowerHex), 4),
            width)

Hyphen == <<"-">>

(***************************************************************************)
(* strlcpy(dst, src, size): dst receives at most size-1 characters of src. *)
(* strcpy(dst + off, src): the string in dst becomes its first off         *)
(* characters followed by src (when dst's terminator lies before off the   *)
(* string in dst is unchanged: the copy lands behind the terminator).      *)
(***************************************************************************)
Min(a, b) == IF a < b THEN a ELSE b

\* faulty variant of strlcpy: size taken as the number of characters plus two
strlcpyShort(src, size) == SubSeq(src, 1, Min(Len(src), size - 2))
strlcpy(src, size) == SubSeq(src, 1, Min(Len(src), size - 1))

\* faulty variant of strcpyAt: the copy starts one character late
strcpyAtShifted(dst, off, src) ==
    IF Len(dst) < off + 1 THEN dst ELSE SubSeq(dst, 1, off + 1) \o src
strcpyAt(dst, off, src) ==
    IF Len(dst) < off THEN dst ELSE SubSeq(dst, 1, off) \o src

(***************************************************************************)
(* uuid_in, the string-to-UUID parser every result is handed to (line      *)
(* 182).  It accepts the 8-4-4-4-12 form with hex digits of either case    *)
(* and yields the 16 bytes the digit pairs spell, in order; anything else  *)
(* is rejected with an error.                                              *)
(***************************************************************************)
HexChars == {LowerHex[i] : i \in 1..16} \cup {UpperHex[i] : i \in 1..16}

HexValues ==
    [c \in HexChars |->
        IF \E i \in 1..16 : LowerHex[i] = c
        THEN (CHOOSE i \in 1..16 : LowerHex[i] = c) - 1
        ELSE (CHOOSE i \in 1..16 : UpperHex[i] = c) - 1]
HexVal(c) == HexValues[c]

HyphenAt == {9, 14, 19, 24}
\* 1-based position in the string of the first digit of byte b (1..16):
\* two digits per byte, one hyphen after bytes 4, 6, 8 and 10
DigitPos(b) == 2 * b - 1 + Cardinality({g \in {4, 6, 8, 10} : g < b})

WellFormed(str) ==
    /\ Len(str) = 36
    /\ \A i \in 1..36 : IF i \in HyphenAt THEN str[i] = "-" ELSE str[i] \in HexChars

uuid_in(str) ==
    IF WellFormed(str)
    THEN [ok |-> TRUE,
          bytes |-> [b \in 1..16 |-> 16 * HexVal(str[DigitPos(b)]) + HexVal(str[DigitPos(b) + 1])]]
    ELSE [ok |-> FALSE, bytes |-> <<>>]

(***************************************************************************)
(* arc4random(): returns a 32-bit word.  The function has no status and    *)
(* no error return: the caller receives a word whether or not the entropy  *)
(* source behind it could supply bytes.  A random source is modelled as a  *)
(* record [available, words]: available says whether the entropy source    *)
(* could supply bytes, and words[i] is the word the call in the i-th       *)
(* argument returns (C leaves the order of the calls within one argument   *)
(* list unspecified; words is indexed by argument, not by time).           *)
(***************************************************************************)
RandStreams ==
    { [i \in 1..6 |-> Word(0, 0)],            \* 0x00000000 ...
      [i \in 1..6 |-> Word(65535, 65535)],    \* 0xffffffff ...
      \* 0x12345678 0x9abcdef0 0x0fedcba9 0x87654321 0x13579bdf 0x2468ace0
      <<Word(4660, 22136), Word(39612, 57072), Word(4077, 52137),
        Word(34661, 17185), Word(4951, 39903), Word(9320, 44256)>> }

RandomSources(n) == {[available |-> a, words |-> SubSeq(st, 1, n)] : a \in BOOLEAN, st \in RandStreams}

arc4random(src, i) == src.words[i]

(***************************************************************************)
(* The time/node provider: uuid_create and uuid_to_string of the host's    *)
(* libc.  Status codes are those of <uuid.h>.  uuid_create fills a uuid_t  *)
(* whose time_low advances with the provider's clock; the other fields     *)
(* range over values with and without the version-1 nibble and the         *)
(* RFC 4122 variant bits, since the file itself never inspects them.       *)
(***************************************************************************)
uuid_s_ok == 0
\* the statuses other than uuid_s_ok a call may report:
\* uuid_s_bad_version (1) and uuid_s_no_memory (3)
FailureStatuses == {1, 3}

\* (0xffffffff + c) mod 2^32
TimeLow(c) == Word((65535 + (65535 + c) \div 65536) % 65536, (65535 + c) % 65536)

ProviderUUIDs(c) ==
    [time_low : {TimeLow(c)},
     time_mid : {40365},                      \* 0x9dad
     time_hi_and_version : {4561, 19132},     \* 0x11d1, 0x4abc
     clock_seq_hi_and_reserved : {128, 255},  \* 0x80, 0xff
     clock_seq_low : {180},                   \* 0xb4
     node : {<<0, 192, 79, 212, 48, 200>>}]   \* 00:c0:4f:d4:30:c8

\* what the provider does in one call of case 1: uuid_create's status and
\* uuid_t, and uuid_to_string's status (consulted only after uuid_create
\* succeeded)
ProviderOutcomes(c) ==
    [cstatus : FailureStatuses, uu : {CHOOSE u \in ProviderUUIDs(c) : TRUE},
     sstatus : {uuid_s_ok}]
    \cup [cstatus : {uuid_s_ok}, uu : ProviderUUIDs(c), sstatus : {uuid_s_ok, 3}]

\* uuid_to_string: "%08x-%04x-%04x-%02x%02x-%02x%02x%02x%02x%02x%02x"
uuid_to_string(u) ==
    Fmtlx(u.time_low, 8) \o Hyphen \o Fmtx(u.time_mid, 4) \o Hyphen
    \o Fmtx(u.time_hi_and_version, 4) \o Hyphen
    \o Fmtx(u.clock_seq_hi_and_reserved, 2) \o Fmtx(u.clock_seq_low, 2) \o Hyphen
    \o Fmtx(u.node[1], 2) \o Fmtx(u.node[2], 2) \o Fmtx(u.node[3], 2)
    \o Fmtx(u.node[4], 2) \o Fmtx(u.node[5], 2) \o Fmtx(u.node[6], 2)

(***************************************************************************)
(* libmd: MD5Init/MD5Update/MD5Final and SHA1_Init/SHA1_Update/SHA1_Final. *)
(* A context accumulates the bytes fed to it; Final maps the accumulated   *)
(* message to a 16-byte (MD5) or 20-byte (SHA-1) digest.  The digest       *)
(* functions themselves are not part of the file: each is modelled as a    *)
(* deterministic function of the message that depends on every byte and    *)
(* on the bytes' order.                                                    *)
(***************************************************************************)
RECURSIVE WeightedSum(_, _, _)
WeightedSum(msg, i, j) ==
    IF j > Len(msg) THEN 0
    ELSE (i + j) * (msg[j] + 1) + WeightedSum(msg, i, j + 1)

\* faulty variant of MD5Init: the context is not reset and holds a byte left
\* behind by earlier activity
MD5InitStale == <<clock % 256>>
MD5Init == <<>>
MD5Update(ctx, data, len) == ctx \o SubSeq(data, 1, len)
MD5Final(ctx) ==
    [i \in 1..16 |-> (i * 29 + 7 * Len(ctx) + WeightedSum(ctx, i, 1)) % 256]

SHA1_Init == <<>>
SHA1_Update(ctx, data, len) == ctx \o SubSeq(data, 1, len)
SHA1_Final(ctx) ==
    [i \in 1..20 |-> (i * 53 + 11 * Len(ctx) + WeightedSum(ctx, 3 * i, 1)) % 256]

NULL == [null |-> TRUE, data |-> <<>>]
Ptr(s) == [null |-> FALSE, data |-> s]

(***************************************************************************)
(* internal_uuid_create(v, ns, ptr, len), lines 76-183.  env holds what    *)
(* the collaborators supply to this call: env.rnd (random source),         *)
(* env.cstatus / env.uu (uuid_create), env.sstatus (uuid_to_string).  The  *)
(* result records the calls made and the ending.                           *)
(***************************************************************************)
\* line 182: the string goes to uuid_in, whose value (or error) is the result
Finish(calls, str, dg) ==
    LET p == uuid_in(str)
    IN  [log |-> calls \o <<"uuid_in">>, strbuf |-> str, digest |-> dg,
         outcome |-> IF p.ok THEN "ok" ELSE "error",
         errstatus |-> uuid_s_ok, ret |-> p.bytes]

\* lines 126-131: ereport(ERROR, ...) with the provider's status; does not return
Report(calls, status) ==
    [log |-> calls \o <<"ereport">>, strbuf |-> <<>>, digest |-> <<>>,
     outcome |-> "error", errstatus |-> status, ret |-> <<>>]

\* faulty variant of StatusOk: the status is not looked at
StatusIgnored(status) == TRUE
\* lines 107, 110, 126: status == uuid_s_ok
StatusOk(status) == status = uuid_s_ok

\* lines 83-85
Case0(ptr) == Finish(<<>>, strlcpy(ptr.data, 37), <<>>)

\* faulty variant of sprintf_v4: the third field lacks "| 0x4000"
sprintf_v4NoVersion(src) ==
    Fmtlx(arc4random(src, 1), 8) \o Hyphen
    \o Fmtx(And16(arc4random(src, 2), 65535), 4) \o Hyphen
    \o Fmtx(And16(arc4random(src, 3), 65535), 4) \o Hyphen
    \o Fmtx(BitOr(And16(arc4random(src, 4), 16383), 32768), 4) \o Hyphen
    \o Fmtx(And16(arc4random(src, 5), 65535), 4)
    \o Fmtlx(arc4random(src, 6), 8)
\* lines 89-95
sprintf_v4(src) ==
    Fmtlx(arc4random(src, 1), 8) \o Hyphen
    \o Fmtx(And16(arc4random(src, 2), 65535), 4) \o Hyphen
    \o Fmtx(BitOr(And16(arc4random(src, 3), 4095), 16384), 4) \o Hyphen
    \o Fmtx(BitOr(And16(arc4random(src, 4), 16383), 32768), 4) \o Hyphen
    \o Fmtx(And16(arc4random(src, 5), 65535), 4)
    \o Fmtlx(arc4random(src, 6), 8)

\* lines 87-97
Case4(env) == Finish([i \in 1..6 |-> "arc4random"], sprintf_v4(env.rnd), <<>>)

\* lines 112-120: the provider's string, with ptr (if set) over its tail
SpliceTail(str, ptr, len) ==
    LET s1 == strlcpy(str, 37)
    IN  IF ~ptr.null /\ len <= 36 THEN strcpyAt(s1, 36 - len, ptr.data) ELSE s1

\* lines 99-134
Case1(ptr, len, env) ==
    IF ~StatusOk(env.cstatus)
    THEN Report(<<"uuid_create">>, env.cstatus)
    ELSE IF ~StatusOk(env.sstatus)
         THEN Report(<<"uuid_create", "uuid_to_string">>, env.sstatus)
         ELSE Finish(<<"uuid_create", "uuid_to_string">>,
                     SpliceTail(uuid_to_string(env.uu), ptr, len), <<>>)

\* lines 147-154
sprintf_v3(buf) ==
    Fmtx(buf[1], 2) \o Fmtx(buf[2], 2) \o Fmtx(buf[3], 2) \o Fmtx(buf[4], 2) \o Hyphen
    \o Fmtx(buf[5], 2) \o Fmtx(buf[6], 2) \o Hyphen
    \o Fmtx(BitOr(BitAnd(buf[7], 15), 48), 2) \o Fmtx(buf[8], 2) \o Hyphen
    \o Fmtx(BitOr(BitAnd(buf[9], 63), 128), 2) \o Fmtx(buf[10], 2) \o Hyphen
    \o Fmtx(buf[11], 2) \o Fmtx(buf[12], 2) \o Fmtx(buf[13], 2)
    \o Fmtx(buf[14], 2) \o Fmtx(buf[15], 2) \o Fmtx(buf[16], 2)

\* faulty variant of Case3: the name is hashed before the namespace
Case3NameFirst(nsp, ptr, len, env) ==
    LET ctx1 == MD5Update(MD5Init, ptr.data, len)
        ctx2 == MD5Update(ctx1, nsp, 16)
        buf  == MD5Final(ctx2)
    IN  Finish(<<"MD5">>, sprintf_v3(buf), buf)
\* lines 136-157
Case3(nsp, ptr, len, env) ==
    LET ctx1 == MD5Update(MD5Init, nsp, 16)
        ctx2 == MD5Update(ctx1, ptr.data, len)
        buf  == MD5Final(ctx2)
    IN  Finish(<<"MD5">>, sprintf_v3(buf), buf)

\* lines 169-176
sprintf_v5(buf) ==
    Fmtx(buf[1], 2) \o Fmtx(buf[2], 2) \o Fmtx(buf[3], 2) \o Fmtx(buf[4], 2) \o Hyphen
    \o Fmtx(buf[5], 2) \o Fmtx(buf[6], 2) \o Hyphen
    \o Fmtx(BitOr(BitAnd(buf[7], 15), 80), 2) \o Fmtx(buf[8], 2) \o Hyphen
    \o Fmtx(BitOr(BitAnd(buf[9], 63), 128), 2) \o Fmtx(buf[10], 2) \o Hyphen
    \o Fmtx(buf[11], 2) \o Fmtx(buf[12], 2) \o Fmtx(buf[13], 2)
    \o Fmtx(buf[14], 2) \o Fmtx(buf[15], 2) \o Fmtx(buf[16], 2)

\* lines 159-179
Case5(nsp, ptr, len, env) ==
    LET ctx1 == SHA1_Update(SHA1_Init, nsp, 16)
        ctx2 == SHA1_Update(ctx1, ptr.data, len)
        buf  == SHA1_Final(ctx2)
    IN  Finish(<<"SHA1">>, sprintf_v5(buf), buf)

internal_uuid_create(v, nsp, ptr, len, env) ==
    CASE v = 0 -> Case0(ptr)
      [] v = 1 -> Case1(ptr, len, env)
      [] v = 3 -> Case3(nsp, ptr, len, env)
      [] v = 5 -> Case5(nsp, ptr, len, env)
      [] OTHER -> Case4(env)

(***************************************************************************)
(* Inputs of the calls.                                                    *)
(***************************************************************************)
NilStr == <<"0","0","0","0","0","0","0","0","-","0","0","0","0","-","0","0","0","0","-","0","0","0","0","-","0","0","0","0","0","0","0","0","0","0","0","0">>
NsTail == <<"-","9","d","a","d","-","1","1","d","1","-","8","0","b","4","-","0","0","c","0","4","f","d","4","3","0","c","8">>
NsDnsStr == <<"6","b","a","7","b","8","1","0">> \o NsTail
NsUrlStr == <<"6","b","a","7","b","8","1","1">> \o NsTail
NsOidStr == <<"6","b","a","7","b","8","1","2">> \o NsTail
NsX500Str == <<"6","b","a","7","b","8","1","4">> \o NsTail

\* namespace arguments: the DNS and URL namespaces, as pg_uuid_t bytes
Namespaces == {uuid_in(NsDnsStr).bytes, uuid_in(NsUrlStr).bytes}

\* name arguments: every byte string over NameBytes of at most MaxNameLen bytes
NameBytes == {119}    \* 'w'
Names == UNION {[1..n -> NameBytes] : n \in 0..MaxNameLen}

NoRnd == [available |-> TRUE, words |-> <<>>]
NoUU == [time_low |-> Word(0, 0), time_mid |-> 0, time_hi_and_version |-> 0,
         clock_seq_hi_and_reserved |-> 0, clock_seq_low |-> 0, node |-> <<0, 0, 0, 0, 0, 0>>]

Env(r, p) == [rnd |-> r, cstatus |-> p.cstatus, uu |-> p.uu, sstatus |-> p.sstatus]
NoProvider == [cstatus |-> uuid_s_ok, uu |-> NoUU, sstatus |-> uuid_s_ok]
NoEnv == Env(NoRnd, NoProvider)

\* the call's result becomes the record of the last call
Return(result) ==
    \E r \in {result} :
       /\ log' = r.log
       /\ strbuf' = r.strbuf
       /\ digest' = r.digest
       /\ outcome' = r.outcome
       /\ errstatus' = r.errstatus
       /\ ret' = r.ret

Init ==
    /\ op = "none"
    /\ ns = <<>>
    /\ name = <<>>
    /\ rnd = <<>>
    /\ prov = <<>>
    /\ digest = <<>>
    /\ log = <<>>
    /\ strbuf = <<>>
    /\ outcome = "none"
    /\ errstatus = uuid_s_ok
    /\ ret = <<>>
    /\ clock = 0
    /\ seen = <<>>

(***************************************************************************)
(* The SQL-callable functions, lines 185-259.                              *)
(***************************************************************************)
Constant(fn, str) ==
    /\ op' = fn
    /\ ns' = <<>> /\ name' = <<>> /\ rnd' = <<>> /\ prov' = <<>>
    /\ Return(internal_uuid_create(0, NULL, Ptr(str), 36, NoEnv))
    /\ UNCHANGED <<clock, seen>>

uuid_nil == Constant("uuid_nil", NilStr)
uuid_ns_dns == Constant("uuid_ns_dns", NsDnsStr)
uuid_ns_url == Constant("uuid_ns_url", NsUrlStr)
uuid_ns_oid == Constant("uuid_ns_oid", NsOidStr)
uuid_ns_x500 == Constant("uuid_ns_x500", NsX500Str)

uuid_generate_v1 ==
    /\ clock < MaxClock
    /\ \E p \in ProviderOutcomes(clock) :
          /\ Return(internal_uuid_create(1, NULL, NULL, 0, Env(NoRnd, p)))
          /\ prov' = <<p>>
    /\ op' = "uuid_generate_v1"
    /\ ns' = <<>> /\ name' = <<>> /\ rnd' = <<>>
    /\ clock' = clock + 1
    /\ UNCHANGED seen

\* faulty variant of sprintf_v1mc: only the multicast bit is forced
sprintf_v1mcNoLocalBit(src) ==
    Hyphen \o Fmtx(BitOr(And16(arc4random(src, 1), 16383), 32768), 4)
    \o Hyphen \o Fmtx(BitOr(And16(arc4random(src, 2), 65535), 256), 4)
    \o Fmtlx(arc4random(src, 3), 8)
\* lines 226-230: "-%04x-%04x%08lx"
sprintf_v1mc(src) ==
    Hyphen \o Fmtx(BitOr(And16(arc4random(src, 1), 16383), 32768), 4)
    \o Hyphen \o Fmtx(BitOr(And16(arc4random(src, 2), 65535), 768), 4)
    \o Fmtlx(arc4random(src, 3), 8)

\* line 224: char buf[20]
V1mcBufSize == 20
\* line 232: the len argument, the number of characters of the tail
V1mcTailLen == 18

uuid_generate_v1mc ==
    /\ clock < MaxClock
    /\ \E src \in RandomSources(3), p \in ProviderOutcomes(clock) :
          \E r \in {internal_uuid_create(1, NULL, Ptr(sprintf_v1mc(src)), V1mcTailLen, Env(src, p))} :
              /\ Return([r EXCEPT !.log = <<"arc4random", "arc4random", "arc4random">> \o @])
              /\ rnd' = <<src>>
              /\ prov' = <<p>>
    /\ op' = "uuid_generate_v1mc"
    /\ ns' = <<>> /\ name' = <<>>
    /\ clock' = clock + 1
    /\ UNCHANGED seen

\* a v3/v5 call; the history variable seen may keep this call for comparison
\* with later ones
Hashed(fn, v) ==
    \E nsp \in Namespaces, nm \in Names, keep \in BOOLEAN :
       \E r \in {internal_uuid_create(v, nsp, Ptr(nm), Len(nm), NoEnv)} :
           /\ Return(r)
           /\ op' = fn
           /\ ns' = nsp /\ name' = nm
           /\ rnd' = <<>> /\ prov' = <<>>
           /\ seen' = IF keep
                      THEN <<[op |-> fn, ns |-> nsp, name |-> nm, at |-> clock,
                              outcome |-> r.outcome, ret |-> r.ret]>>
                      ELSE seen
           /\ UNCHANGED clock

uuid_generate_v3 == Hashed("uuid_generate_v3", 3)

uuid_generate_v4 ==
    /\ \E src \in RandomSources(6) :
          /\ Return(internal_uuid_create(4, NULL, NULL, 0, Env(src, NoProvider)))
          /\ rnd' = <<src>>
    /\ op' = "uuid_generate_v4"
    /\ ns' = <<>> /\ name' = <<>> /\ prov' = <<>>
    /\ UNCHANGED <<clock, seen>>

uuid_generate_v5 == Hashed("uuid_generate_v5", 5)

Next ==
    \/ uuid_nil
    \/ uuid_ns_dns
    \/ uuid_ns_url
    \/ uuid_ns_oid
    \/ uuid_ns_x500
    \/ uuid_generate_v1
    \/ uuid_generate_v1mc
    \/ uuid_generate_v3
    \/ uuid_generate_v4
    \/ uuid_generate_v5

Spec == Init /\ [][Next]_vars

(***************************************************************************)
(* Properties.                                                             *)
(***************************************************************************)
Returned == outcome = "ok"
HandedToParser == \E i \in 1..Len(log) : log[i] = "uuid_in"
Calls(fn) == Cardinality({i \in 1..Len(log) : log[i] = fn})

\* byte b (0..15) of a 16-byte value; its version nibble and variant bits
Byte(u, b) == u[b + 1]
VersionNibble(u) == Byte(u, 6) \div 16
VariantBits(u) == Byte(u, 8) \div 64

\* the 16 bytes of the uuid_t the provider produced in the last call
ProviderBytes == uuid_in(uuid_to_string(prov[1].uu)).bytes
ProviderSucceeded == prov # <<>> /\ prov[1].cstatus = uuid_s_ok /\ prov[1].sstatus = uuid_s_ok
ProviderStatus == IF prov[1].cstatus # uuid_s_ok THEN prov[1].cstatus ELSE prov[1].sstatus

\* C1: a v3 (v5) call returns the first 16 bytes of the MD5 (SHA-1) digest of
\* the 16 namespace bytes followed by the name bytes, with the high nibble of
\* byte 6 set to 3 (5) and the top two bits of byte 8 set to binary 10, and
\* every other bit as in the digest.
Stamped(dg, ver) ==
    [i \in 1..16 |-> IF i = 7 THEN (16 * ver) + (dg[7] % 16)
                     ELSE IF i = 9 THEN 128 + (dg[9] % 64)
                     ELSE dg[i]]
C1_HashUUID ==
    /\ op = "uuid_generate_v3" => Returned /\ ret = Stamped(MD5Final(ns \o name), 3)
    /\ op = "uuid_generate_v5" => Returned /\ ret = Stamped(SHA1_Final(ns \o name), 5)
C1_Witness ==
    /\ op = "uuid_generate_v3" /\ name # <<>> /\ Returned
    /\ digest[7] \div 16 # 3 /\ digest[9] \div 64 # 2

\* C2 as stated: every UUID returned by v1, v3, v4, v5 has version nibble 1,
\* 3, 4, 5 and variant bits binary 10, whatever the collaborators supply.
VersionOf(fn) ==
    CASE fn = "uuid_generate_v1" -> 1
      [] fn = "uuid_generate_v3" -> 3
      [] fn = "uuid_generate_v4" -> 4
      [] fn = "uuid_generate_v5" -> 5
C4_MulticastLocal ==
    (op = "uuid_generate_v1mc" /\ ProviderSucceeded)
        => Returned /\ BitAnd(Byte(ret, 10), 3) = 3
C4_Witness ==
    /\ op = "uuid_generate_v1mc" /\ Returned
    /\ rnd[1].words[2] = Word(0, 0) /\ BitAnd(Byte(ProviderBytes, 10), 3) = 0

\* C5 as stated: a v1mc result equals the provider's value in every byte
\* except byte 9 and bytes 10-15.
C5_SevenBytesReplaced ==
    (op = "uuid_generate_v1mc" /\ Returned)
        => \A b \in 0..8 : Byte(ret, b) = Byte(ProviderBytes, b)
\* C5 amended: a v1mc result equals the provider's value in bytes 0-7; the
\* eight bytes 8-15 (both clock-sequence bytes and the node) are the locally
\* generated ones: (r1 & 0x3fff) | 0x8000, (r2 & 0xffff) | 0x0300, r3.
C5_Amended ==
    (op = "uuid_generate_v1mc" /\ ProviderSucceeded)
        => /\ Returned
           /\ \A b \in 0..7 : Byte(ret, b) = Byte(ProviderBytes, b)
           /\ LET r1 == rnd[1].words[1]
                  r2 == rnd[1].words[2]
                  r3 == rnd[1].words[3]
              IN  /\ Byte(ret, 8) = 128 + ((r1.lo \div 256) % 64)
                  /\ Byte(ret, 9) = r1.lo % 256
                  /\ Byte(ret, 10) = BitOr(r2.lo \div 256, 3)
                  /\ Byte(ret, 11) = r2.lo % 256
                  /\ Byte(ret, 12) = r3.hi \div 256
                  /\ Byte(ret, 13) = r3.hi % 256
                  /\ Byte(ret, 14) = r3.lo \div 256
                  /\ Byte(ret, 15) = r3.lo % 256
C5_Witness ==
    /\ op = "uuid_generate_v1mc" /\ Returned
    /\ Byte(ret, 8) # Byte(ProviderBytes, 8)
    /\ \A b \in 9..15 : Byte(ret, b) # Byte(ProviderBytes, b)

\* C6: when uuid_create or uuid_to_string reports a status other than
\* uuid_s_ok, v1 and v1mc end in an error carrying that status: nothing is
\* returned, nothing is handed to uuid_in, the provider is not called again,
\* and no other strategy is tried.
C6_ProviderFailure ==
    (op \in {"uuid_generate_v1", "uuid_generate_v1mc"} /\ ~ProviderSucceeded)
        => /\ outcome = "error" /\ errstatus = ProviderStatus
           /\ ret = <<>> /\ strbuf = <<>> /\ ~HandedToParser
           /\ log[Len(log)] = "ereport"
           /\ Calls("uuid_create") = 1
           /\ Calls("uuid_to_string") = (IF prov[1].cstatus = uuid_s_ok THEN 1 ELSE 0)
           /\ Calls("MD5") = 0 /\ Calls("SHA1") = 0
           /\ Calls("arc4random") = (IF op = "uuid_generate_v1mc" THEN 3 ELSE 0)
C6_Witness ==
    /\ op = "uuid_generate_v1mc" /\ prov[1].cstatus = uuid_s_ok
    /\ prov[1].sstatus = 3 /\ errstatus = 3 /\ outcome = "error"

\* C7: every string handed to uuid_in has 36 characters, hyphens at indices
\* 8, 13, 18, 23 and lowercase hex digits everywhere else.
Canonical(str) ==
    /\ Len(str) = 36
    /\ \A i \in 1..36 :
          IF i \in HyphenAt THEN str[i] = "-" ELSE \E d \in 1..16 : str[i] = LowerHex[d]
C7_CanonicalString == HandedToParser => Canonical(strbuf)
C7_Witness ==
    /\ op = "uuid_generate_v1mc" /\ HandedToParser /\ Canonical(strbuf)
    /\ rnd[1].words[3] = Word(4077, 52137)

\* C8: uuid_nil returns sixteen zero bytes and the namespace functions return
\* 6ba7b810-, 6ba7b811-, 6ba7b812-, 6ba7b814-9dad-11d1-80b4-00c04fd430c8:
\* the whole 36-character constant reaches uuid_in, and uuid_in is the only
\* collaborator called.
NsBytes(b3) == <<107, 167, 184, b3, 157, 173, 17, 209, 128, 180, 0, 192, 79, 212, 48, 200>>
ConstantResult(str, bytes) ==
    /\ Returned /\ strbuf = str /\ Len(strbuf) = 36
    /\ ret = bytes
    /\ log = <<"uuid_in">>
C8_Constants ==
    /\ op = "uuid_nil" => ConstantResult(NilStr, [i \in 1..16 |-> 0])
    /\ op = "uuid_ns_dns" => ConstantResult(NsDnsStr, NsBytes(16))
    /\ op = "uuid_ns_url" => ConstantResult(NsUrlStr, NsBytes(17))
    /\ op = "uuid_ns_oid" => ConstantResult(NsOidStr, NsBytes(18))
    /\ op = "uuid_ns_x500" => ConstantResult(NsX500Str, NsBytes(20))
C8_Witness ==
    /\ op = "uuid_ns_x500" /\ Returned /\ clock > 0 /\ seen # <<>>

\* C9: when the random source cannot supply bytes, v4 and v1mc end in an
\* error and return no UUID.
C9_RandomFailureIsError ==
    (op \in {"uuid_generate_v4", "uuid_generate_v1mc"} /\ rnd # <<>> /\ ~rnd[1].available)
        => outcome = "error" /\ ret = <<>>

\* C10: in a v1mc result the first 18 characters of the string (bytes 0-7)
\* are those of the provider's string and the 18-character tail sits at
\* offset 18: nothing is shifted, overwritten or cut off.
C10_TimeFieldsKept ==
    (op = "uuid_generate_v1mc" /\ ProviderSucceeded)
        => /\ HandedToParser /\ Len(strbuf) = 36
           /\ SubSeq(strbuf, 1, 18) = SubSeq(uuid_to_string(prov[1].uu), 1, 18)
           /\ SubSeq(strbuf, 19, 36) = sprintf_v1mc(rnd[1])
           /\ Returned
           /\ \A b \in 0..7 : Byte(ret, b) = Byte(ProviderBytes, b)
C10_Witness ==
    /\ op = "uuid_generate_v1mc" /\ Returned /\ clock = MaxClock
    /\ SubSeq(strbuf, 1, 8) = <<"0","0","0","0","0","0","0","0">>
    /\ rnd[1].words[1] = Word(65535, 65535)

====
